---------------------------- MODULE Spec2Model ----------------------------
(***************************************************************************)
(* The comment-watch engine of gh-pr-review: runWatch (cmd/watch.go) and   *)
(* Service.Watch with its select loop (the package watch source held in    *)
(* internal/ghcli/ghcli.go, lines 156-577).                                *)
(*                                                                         *)
(* Time is discrete (one unit = one second, the unit of the command's      *)
(* flags).  Steps of the program take no time; time passes only while a    *)
(* fetch is in flight or while the loop is blocked in its select with no   *)
(* case ready.  Several timers may expire at the same instant, and then    *)
(* Go's select picks any ready case.                                       *)
(***************************************************************************)
EXTENDS Integers, Sequences, FiniteSets, TLC

\* ------------------------------------------------------------------ bounds
\* Database ids the remote hands out to review comments: 1..NumReview.
NumReview == 3
\* Database ids the remote hands out to issue comments: 1..NumIssue.
NumIssue == 1
\* Longest time one fetchAllComments call stays in flight.
MaxFetchDur == 1
\* Polls the select may still pick while timeoutCtx.Done() is ready.
MaxLatePolls == 1
\* In the scripted-arrival specification comments are posted before this time.
PostHorizon == 4

\* Longest review-comment listing the volatile source serves.
MaxServedLen == 2

\* The page size of the GraphQL queries (first: 100), scaled down.
PageSize == 2
\* Most review threads of the pull request in the paged-fetch specification.
MaxThreads == 3
\* Most comments of one review thread.
MaxThreadLen == 3
\* Most issue comments of the pull request in the paged-fetch specification.
MaxIssuePosted == 3

\* Values of --interval, --debounce, --timeout explored (0 is rejected).
Intervals == {0, 1, 2}
Debounces == {0, 1}
Timeouts  == {0, 3}

\* ------------------------------------------------------- program constants
maxConsecutiveErrs == 3

NoTime == -1

\* A response node whose databaseId field is missing.
Absent == -1

VARIABLES
  \* options (cmd/watch.go watchOptions, WatchOptions)
  interval, debounce, timeout, includeIssue,
  \* the clock
  now,
  \* the pull request as the remote last served it: the database ids of its
  \* review / issue comments (ids are handed out in increasing order)
  remoteReview, remoteIssue,
  \* runWatch / Watch control state
  pc,               \* "validate", "initfetch", "select", "fetching", "exited"
  fetchStart,       \* time the in-flight fetch was started
  startTime,        \* Watch: startTime
  deadline,         \* expiry of context.WithTimeout(ctx, opts.Timeout)
  ctxErr,           \* ctx.Err() of runWatch's cancel context
  timeoutCtxErr,    \* timeoutCtx.Err()
  knownIDs, newComments, consecutiveErrors,
  debounceTimer,    \* "nil", "running", "stopped"
  debounceAt,       \* expiry of the running debounce timer
  tickerOn, tickPending, nextTick,
  \* what Watch returned
  retKind,          \* "none", "result", "error"
  result,           \* the WatchResult
  errPhase,         \* "", "initial", "polling"
  \* runWatch's outcome
  emitted,          \* WatchResults written by encodeJSON
  exitCode,         \* NoTime while running
  \* the signal goroutine
  sigCh,            \* buffered channel of capacity 1: a value is present
  interrupted,      \* the interrupt has been delivered to the process
  listenerPc,       \* "idle", "waiting", "done"
  cancelCalls,      \* calls of cancel() made by the goroutine
  \* history of the run
  baseline,         \* identities returned by the initial fetch
  decidedBy,        \* what ended the loop
  discoveries,      \* polls that found new comments: [at, n]
  anyPollOk,        \* some poll fetch succeeded
  firedInFlight,    \* timeoutCtx became done while the current fetch was in flight
  lateFetches,      \* fetches started after timeoutCtx was done
  lateReset,        \* the debounce timer was re-armed after timeoutCtx was done
  keptInFlight,     \* new comments of a fetch overtaken by Done were appended
  cancelFired,      \* the goroutine called cancel(): "no", or during "init"
                    \* (the initial fetch) or "loop" (the select loop)
  \* one call of fetchAllComments, request by request
  prThreads,        \* the review threads the API holds: database ids per thread
  prIssue,          \* the issue comments the API holds: database ids
  fpc,              \* "idle", "review", "issue", "returned"
  cursor,           \* the cursor of the next page request, 0 for nil
  pageAcc,          \* allComments of fetchReviewComments / fetchIssueComments
  allAcc,           \* allComments of fetchAllComments
  fetchRet,         \* what fetchAllComments returned: [comments, err]
  prFound           \* the API still finds the pull request

ctlVars  == <<pc, fetchStart, startTime, deadline, knownIDs, newComments,
              consecutiveErrors, debounceTimer, debounceAt, tickerOn,
              tickPending, nextTick>>
optVars  == <<interval, debounce, timeout, includeIssue>>
ctxVars  == <<ctxErr, timeoutCtxErr>>
retVars  == <<retKind, result, errPhase>>
cmdVars  == <<emitted, exitCode>>
sigVars  == <<sigCh, interrupted, listenerPc, cancelCalls>>
srcVars  == <<remoteReview, remoteIssue>>
histVars == <<baseline, decidedBy, discoveries, anyPollOk, firedInFlight,
              lateFetches, lateReset, keptInFlight, cancelFired>>
pageVars == <<prThreads, prIssue, fpc, cursor, pageAcc, allAcc, fetchRet,
              prFound>>
vars == <<optVars, now, srcVars, ctlVars, ctxVars, retVars, cmdVars, sigVars,
          histVars, pageVars>>

\* ---------------------------------------------------------------- helpers
Range(s) == {s[i] : i \in 1..Len(s)}

\* %d: the decimal digits of a non-negative number.
RECURSIVE Digits(_)
Digits(n) == IF n < 10 THEN <<n>> ELSE Digits(n \div 10) \o <<n % 10>>

\* Variant: the identity is formatted without the namespace of the comment.
SprintfNoNamespace(kind, n) == <<"comment", "-">> \o Digits(n)

\* fmt.Sprintf("review-%d", n), fmt.Sprintf("issue-%d", n): the namespace, a
\* dash and the digits.
Sprintf(kind, n) == <<kind, "-">> \o Digits(n)

\* The number a formatted identity was made from.
RECURSIVE DigitsValue(_)
DigitsValue(ds) ==
  IF ds = <<>> THEN 0 ELSE 10 * DigitsValue(SubSeq(ds, 1, Len(ds) - 1))
                           + ds[Len(ds)]

DatabaseIDOf(id) == DigitsValue(SubSeq(id, 3, Len(id)))

\* One raw node normalized into a Comment: ID "<kind>-<databaseId>".
MkComment(kind, dbid) == [ID |-> Sprintf(kind, dbid), Type |-> kind]

\* fetchReviewComments: every review comment of the pull request.
fetchReviewComments(rr) == [k \in 1..Len(rr) |-> MkComment("review", rr[k])]

\* fetchIssueComments: every issue comment of the pull request.
fetchIssueComments(ri) == [k \in 1..Len(ri) |-> MkComment("issue", ri[k])]

\* Variant: the issue comments are put before the review comments.
fetchAllCommentsIssueFirst(rr, ri, inc) ==
  (IF inc THEN fetchIssueComments(ri) ELSE <<>>) \o fetchReviewComments(rr)

\* fetchAllComments: review comments, then (if asked) issue comments.
fetchAllComments(rr, ri, inc) ==
  fetchReviewComments(rr) \o (IF inc THEN fetchIssueComments(ri) ELSE <<>>)

\* fetchAllCommentIDs: the set of IDs of fetchAllComments.
fetchAllCommentIDs(rr, ri, inc) ==
  {c.ID : c \in Range(fetchAllComments(rr, ri, inc))}

\* Variant: the loop appends every fetched comment, seen or not.
DiffNewNoSeenCheck(cur, known) == cur

\* Variant: every fetched comment is tested against the IDs known before the
\* fetch; IDs are not marked while the loop runs.
DiffNewBatchCheck(cur, known) == SelectSeq(cur, LAMBDA c : c.ID \notin known)

\* The loop over currentComments: the comments whose ID is not yet known.
RECURSIVE DiffNew(_, _)
DiffNew(cur, known) ==
  IF cur = <<>> THEN <<>>
  ELSE IF Head(cur).ID \in known
       THEN DiffNew(Tail(cur), known)
       ELSE <<Head(cur)>> \o DiffNew(Tail(cur), known \cup {Head(cur).ID})

IDsOf(cs) == {c.ID : c \in Range(cs)}

Min(a, b) == IF a < b THEN a ELSE b

RECURSIVE Flatten(_)
Flatten(ss) == IF ss = <<>> THEN <<>> ELSE Head(ss) \o Flatten(Tail(ss))

\* The response decoded into DatabaseID int: a missing field leaves 0.
DecodeID(raw) == IF raw = Absent THEN 0 ELSE raw

\* The comments one thread node carries: comments(first: 100), no cursor.
ThreadComments(th) ==
  [k \in 1..Min(Len(th), PageSize) |-> MkComment("review", DecodeID(th[k]))]

\* fetchReviewCommentsPage: reviewThreads(first: 100, after: $cursor), every
\* comment node of every thread node normalized, and the next cursor (0: nil).
fetchReviewCommentsPage(threads, cur) ==
  LET last  == Min(Len(threads), cur + PageSize)
      nodes == SubSeq(threads, cur + 1, last)
  IN [comments |-> Flatten([i \in 1..Len(nodes) |-> ThreadComments(nodes[i])]),
      next     |-> IF last < Len(threads) THEN last ELSE 0]

\* fetchIssueCommentsPage: comments(first: 100, after: $cursor).
fetchIssueCommentsPage(posted, cur) ==
  LET last  == Min(Len(posted), cur + PageSize)
      nodes == SubSeq(posted, cur + 1, last)
  IN [comments |-> [i \in 1..Len(nodes) |->
                      MkComment("issue", DecodeID(nodes[i]))],
      next     |-> IF last < Len(posted) THEN last ELSE 0]

NoFetch == [comments |-> <<>>, err |-> FALSE]

\* Variant: a failed page request hands back what was accumulated so far.
FailReturnPartial(acc) == [comments |-> acc, err |-> TRUE]

\* fetchAllComments on a failed page request: return nil, err.
FailReturn(acc) == [comments |-> <<>>, err |-> TRUE]

\* Variant: knownIDs is replaced by the IDs of the latest fetch.
ObserveCurrent(known, cur, fresh) == IDsOf(cur)

\* knownIDs after the loop over currentComments: the new IDs are added.
Observe(known, cur, fresh) == known \cup IDsOf(fresh)

\* Variant: the new comments are put in front of the accumulator.
AccumulateFront(acc, fresh) == fresh \o acc

\* newComments = append(newComments, c) for every new comment of the poll.
Accumulate(acc, fresh) == acc \o fresh

\* Variant: every successful poll arms the debounce timer.
ArmsDebounceAlways(fresh) == TRUE

\* The debounce timer is (re)armed inside the branch of a new comment.
ArmsDebounce(fresh) == fresh # <<>>

\* Variant: only --interval is tested.
ValidateIntervalOnly(i, d, t) == i > 0

\* watchOptions.Validate
Validate(i, d, t) == i > 0 /\ d > 0 /\ t > 0

\* Variant: the ceiling test is off by one.
CeilingReachedLate(n) == n > maxConsecutiveErrs

\* The ceiling test on consecutiveErrors after a failed poll.
CeilingReached(n) == n >= maxConsecutiveErrs

\* Variant: a running debounce timer is left alone instead of re-armed.
NextExpiryNoRestart(timer, at, t, d) == IF timer = "running" THEN at ELSE t + d

\* Variant: an expiry that already sits in the timer's channel is not drained.
NextExpiryKeepsElapsed(timer, at, t, d) ==
  IF timer = "running" /\ at <= t THEN at ELSE t + d

\* Stop, drain and re-arm of the debounce timer: the expiry of the new timer.
NextExpiry(timer, at, t, d) == t + d

\* ------------------------------------------------------- readiness of cases
DoneReady     == timeoutCtxErr # "nil"
TickReady     == tickPending
\* Variant: the debounce channel delivers one second after the expiry.
DebounceReadyLate == debounceTimer = "running" /\ now > debounceAt
DebounceReady == debounceTimer = "running" /\ now >= debounceAt

Running       == pc \in {"initfetch", "select", "fetching"}
\* Variant: the deadline timer fires one second before opts.Timeout.
DeadlineDueEarly == timeoutCtxErr = "nil" /\ Running /\ now >= deadline - 1
DeadlineDue == timeoutCtxErr = "nil" /\ Running /\ now >= deadline

ListenerReady == listenerPc = "waiting" /\ (sigCh \/ ctxErr # "nil")

NoResult == [comments |-> <<>>, timedOut |-> FALSE, cancelled |-> FALSE,
             watchedMs |-> 0]

\* Variant: timedOut and cancelled derived as one enum (timeout wins).
DoneResultEnum(acc, tErr, cErr, watched) ==
  [comments  |-> acc,
   timedOut  |-> (tErr = "DeadlineExceeded"),
   cancelled |-> (cErr = "Canceled" /\ tErr # "DeadlineExceeded"),
   watchedMs |-> watched]

\* Variant: comments are returned only while a debounce window is not pending.
DoneResultDropsAcc(acc, tErr, cErr, watched) ==
  [comments  |-> <<>>,
   timedOut  |-> (tErr = "DeadlineExceeded"),
   cancelled |-> (cErr = "Canceled"),
   watchedMs |-> watched]

\* Variant: every return through Done is reported as a timeout.
DoneResultAlwaysTimedOut(acc, tErr, cErr, watched) ==
  [comments  |-> acc,
   timedOut  |-> TRUE,
   cancelled |-> (cErr = "Canceled"),
   watchedMs |-> watched]

\* The result built in the case <-timeoutCtx.Done().
DoneResult(acc, tErr, cErr, watched) ==
  [comments  |-> acc,
   timedOut  |-> (tErr = "DeadlineExceeded"),
   cancelled |-> (cErr = "Canceled"),
   watchedMs |-> watched]

\* Variant: the debounce return is flagged as a timeout.
DebounceResultTimedOut(acc, watched) ==
  [comments |-> acc, timedOut |-> TRUE, cancelled |-> FALSE,
   watchedMs |-> watched]

\* The result built in the case <-debounceCh.
DebounceResult(acc, watched) ==
  [comments |-> acc, timedOut |-> FALSE, cancelled |-> FALSE,
   watchedMs |-> watched]

\* cancel() of a context: the first error stays.
CancelCtx(e) == IF e = "nil" THEN "Canceled" ELSE e

\* Variant: timeoutCtx is not derived from runWatch's ctx.
PropagateCancelNone(parentErr, childErr) == childErr

\* cancel() of ctx reaches timeoutCtx, its child (context.WithTimeout(ctx, ..)).
PropagateCancel(parentErr, childErr) ==
  IF parentErr = "nil" THEN CancelCtx(childErr) ELSE childErr

\* Variant: the exit status 2 is chosen without looking at Cancelled.
ExitForNoCancelTest(kind, res) ==
  IF kind = "error" THEN 1
  ELSE IF res.timedOut /\ Len(res.comments) = 0 THEN 2
  ELSE 0

\* runWatch's exit status for what Watch returned.
ExitFor(kind, res) ==
  IF kind = "error" THEN 1
  ELSE IF res.timedOut /\ ~res.cancelled /\ Len(res.comments) = 0 THEN 2
  ELSE 0

\* Variant: runWatch encodes the WatchResult before it looks at the error.
EmitsAlways(kind) == 1

\* WatchResults runWatch encodes for what Watch returned: none on an error.
Emits(kind) == IF kind = "error" THEN 0 ELSE 1

\* Watch returns (its deferred cancel and ticker.Stop run) and runWatch
\* finishes: error or one encoded WatchResult, exit status, deferred cancel.
Return(kind, res, phase, by) ==
  /\ pc' = "exited"
  /\ retKind' = kind /\ result' = res /\ errPhase' = phase
  /\ decidedBy' = by
  /\ tickerOn' = FALSE /\ tickPending' = FALSE /\ nextTick' = NoTime
  /\ fetchStart' = NoTime
  /\ timeoutCtxErr' = CancelCtx(timeoutCtxErr)
  /\ ctxErr' = CancelCtx(ctxErr)
  /\ emitted' = emitted + Emits(kind)
  /\ exitCode' = ExitFor(kind, res)

\* What the remote serves to a successful fetchAllComments: the comments it
\* served before plus those posted since (the issue stream is queried only
\* with includeIssue).
Served ==
  \E nr \in Len(remoteReview)..NumReview, ni \in Len(remoteIssue)..NumIssue :
     /\ remoteReview' = [k \in 1..nr |-> k]
     /\ remoteIssue' = IF includeIssue THEN [k \in 1..ni |-> k]
                       ELSE remoteIssue

\* ------------------------------------------------------------------- Init
InitRest ==
  /\ now = 0
  /\ pc = "validate"
  /\ fetchStart = NoTime /\ startTime = NoTime /\ deadline = NoTime
  /\ ctxErr = "nil" /\ timeoutCtxErr = "nil"
  /\ knownIDs = {} /\ newComments = <<>> /\ consecutiveErrors = 0
  /\ debounceTimer = "nil" /\ debounceAt = NoTime
  /\ tickerOn = FALSE /\ tickPending = FALSE /\ nextTick = NoTime
  /\ retKind = "none" /\ result = NoResult /\ errPhase = ""
  /\ emitted = 0 /\ exitCode = NoTime
  /\ sigCh = FALSE /\ interrupted = FALSE
  /\ listenerPc = "idle" /\ cancelCalls = 0
  /\ baseline = {} /\ decidedBy = "none" /\ discoveries = <<>>
  /\ anyPollOk = FALSE /\ firedInFlight = FALSE
  /\ lateFetches = 0 /\ lateReset = FALSE /\ keptInFlight = FALSE
  /\ cancelFired = "no"
  /\ prThreads = <<>> /\ prIssue = <<>>
  /\ fpc = "idle" /\ cursor = 0 /\ pageAcc = <<>> /\ allAcc = <<>>
  /\ fetchRet = NoFetch /\ prFound = TRUE

\* Nothing has been served yet.
InitRemote == remoteReview = <<>> /\ remoteIssue = <<>>

Init ==
  /\ interval \in Intervals /\ debounce \in Debounces /\ timeout \in Timeouts
  /\ includeIssue \in BOOLEAN
  /\ InitRemote
  /\ InitRest

\* ---------------------------------------------------------------- runWatch
\* runWatch up to the call of service.Watch, and Watch up to its first fetch.
RunWatchStart ==
  /\ pc = "validate"
  /\ IF ~Validate(interval, debounce, timeout)
     THEN /\ pc' = "exited" /\ exitCode' = 1
          /\ UNCHANGED <<listenerPc, startTime, deadline, fetchStart>>
     ELSE /\ pc' = "initfetch" /\ UNCHANGED exitCode
          /\ listenerPc' = "waiting"
          /\ startTime' = now
          /\ deadline' = now + timeout
          /\ fetchStart' = now
  /\ UNCHANGED <<optVars, pageVars, now, srcVars, ctxVars, retVars, emitted, histVars,
                 knownIDs, newComments, consecutiveErrors, debounceTimer,
                 debounceAt, tickerOn, tickPending, nextTick, sigCh,
                 interrupted, cancelCalls>>

\* Variant: the failed initial fetch is noted and the loop is entered with an
\* empty snapshot.
InitFetchFailContinues ==
  /\ pc = "initfetch"
  /\ pc' = "select"
  /\ errPhase' = "initial"
  /\ fetchStart' = NoTime
  /\ tickerOn' = TRUE /\ nextTick' = now + interval
  /\ UNCHANGED <<optVars, pageVars, now, srcVars, ctxVars, retKind, result, cmdVars,
                 sigVars, histVars, startTime, deadline, knownIDs,
                 newComments, consecutiveErrors, debounceTimer, debounceAt,
                 tickPending>>

\* The initial fetchAllCommentIDs fails: Watch returns the error.
InitFetchFail ==
  /\ pc = "initfetch"
  /\ Return("error", result, "initial", "initial")
  /\ UNCHANGED <<optVars, pageVars, now, srcVars, sigVars, startTime, deadline,
                 knownIDs, newComments, consecutiveErrors, debounceTimer,
                 debounceAt, baseline, discoveries,
                 anyPollOk, firedInFlight, lateFetches, lateReset,
                 keptInFlight, cancelFired>>

\* The initial fetch succeeds: knownIDs is seeded, the ticker is created.
InitFetchOkWith(served) ==
  /\ pc = "initfetch"
  /\ pc' = "select"
  /\ fetchStart' = NoTime
  /\ served
  /\ knownIDs' = fetchAllCommentIDs(remoteReview', remoteIssue', includeIssue)
  /\ baseline' = IDsOf(fetchAllComments(remoteReview', remoteIssue',
                                        includeIssue))
  /\ tickerOn' = TRUE /\ nextTick' = now + interval
  /\ UNCHANGED <<optVars, pageVars, now, ctxVars, retVars, cmdVars, sigVars,
                 startTime, deadline, newComments, consecutiveErrors,
                 debounceTimer, debounceAt, tickPending, decidedBy,
                 discoveries, anyPollOk, firedInFlight, lateFetches,
                 lateReset, keptInFlight, cancelFired>>

InitFetchOk == InitFetchOkWith(Served)

\* case <-timeoutCtx.Done()
DoneCase ==
  /\ pc = "select" /\ DoneReady
  /\ debounceTimer' = IF debounceTimer = "nil" THEN "nil" ELSE "stopped"
  /\ Return("result",
            DoneResult(newComments, timeoutCtxErr, ctxErr, now - startTime),
            errPhase, "done")
  /\ UNCHANGED <<optVars, pageVars, now, srcVars, sigVars, startTime, deadline,
                 knownIDs, newComments, consecutiveErrors, debounceAt,
                 baseline, discoveries, anyPollOk,
                 firedInFlight, lateFetches, lateReset, keptInFlight,
                 cancelFired>>

\* case <-ticker.C, up to the call of fetchAllComments
TickerCase ==
  /\ pc = "select" /\ TickReady
  /\ DoneReady => lateFetches < MaxLatePolls
  /\ pc' = "fetching"
  /\ tickPending' = FALSE
  /\ fetchStart' = now
  /\ firedInFlight' = FALSE
  /\ lateFetches' = lateFetches + (IF DoneReady THEN 1 ELSE 0)
  /\ UNCHANGED <<optVars, pageVars, now, srcVars, ctxVars, retVars, cmdVars, sigVars,
                 startTime, deadline, knownIDs, newComments, consecutiveErrors,
                 debounceTimer, debounceAt, tickerOn, nextTick, baseline,
                 decidedBy, discoveries, anyPollOk, lateReset, keptInFlight,
                 cancelFired>>

\* Variant: a failed poll also stops a running debounce timer.
PollFetchFailStopsTimer ==
  /\ pc = "fetching"
  /\ consecutiveErrors' = consecutiveErrors + 1
  /\ debounceTimer' = IF debounceTimer = "running" THEN "stopped"
                      ELSE debounceTimer
  /\ IF CeilingReached(consecutiveErrors')
     THEN Return("error", result, "polling", "ceiling")
     ELSE /\ pc' = "select"
          /\ fetchStart' = NoTime
          /\ UNCHANGED <<ctxVars, retVars, cmdVars, decidedBy, tickerOn,
                         tickPending, nextTick>>
  /\ UNCHANGED <<optVars, pageVars, now, srcVars, sigVars, startTime, deadline,
                 knownIDs, newComments, debounceAt,
                 baseline, discoveries, anyPollOk,
                 firedInFlight, lateFetches, lateReset, keptInFlight,
                 cancelFired>>

\* case <-ticker.C, fetchAllComments returned an error
PollFetchFail ==
  /\ pc = "fetching"
  /\ consecutiveErrors' = consecutiveErrors + 1
  /\ IF CeilingReached(consecutiveErrors')
     THEN Return("error", result, "polling", "ceiling")
     ELSE /\ pc' = "select"
          /\ fetchStart' = NoTime
          /\ UNCHANGED <<ctxVars, retVars, cmdVars, decidedBy, tickerOn,
                         tickPending, nextTick>>
  /\ UNCHANGED <<optVars, pageVars, now, srcVars, sigVars, startTime, deadline,
                 knownIDs, newComments, debounceTimer, debounceAt,
                 baseline, discoveries, anyPollOk,
                 firedInFlight, lateFetches, lateReset, keptInFlight,
                 cancelFired>>

\* case <-ticker.C, fetchAllComments succeeded: diff, accumulate, re-arm
PollFetchOkWith(served) ==
  /\ pc = "fetching"
  /\ pc' = "select"
  /\ fetchStart' = NoTime
  /\ consecutiveErrors' = 0
  /\ anyPollOk' = TRUE
  /\ served
  /\ LET cur   == fetchAllComments(remoteReview', remoteIssue', includeIssue)
         fresh == DiffNew(cur, knownIDs)
     IN /\ knownIDs' = Observe(knownIDs, cur, fresh)
        /\ newComments' = Accumulate(newComments, fresh)
        /\ IF ArmsDebounce(fresh)
           THEN /\ debounceTimer' = "running"
                /\ debounceAt' = NextExpiry(debounceTimer, debounceAt, now,
                                            debounce)
                /\ discoveries' = Append(discoveries,
                                         [at |-> now, n |-> Len(fresh)])
                /\ lateReset' = (lateReset \/ DoneReady)
                /\ keptInFlight' = (keptInFlight \/ firedInFlight)
           ELSE UNCHANGED <<debounceTimer, debounceAt, discoveries,
                            lateReset, keptInFlight, cancelFired>>
  /\ UNCHANGED <<optVars, pageVars, now, ctxVars, retVars, cmdVars, sigVars,
                 startTime, deadline, tickerOn, tickPending, nextTick,
                 baseline, decidedBy, firedInFlight, lateFetches,
                 cancelFired>>

PollFetchOk == PollFetchOkWith(Served)

\* case <-debounceCh
DebounceCase ==
  /\ pc = "select" /\ DebounceReady
  /\ Return("result", DebounceResult(newComments, now - startTime),
            errPhase, "debounce")
  /\ UNCHANGED <<optVars, pageVars, now, srcVars, sigVars, startTime, deadline,
                 knownIDs, newComments, consecutiveErrors, debounceTimer,
                 debounceAt, baseline, discoveries,
                 anyPollOk, firedInFlight, lateFetches, lateReset,
                 keptInFlight, cancelFired>>

\* ------------------------------------------------------------ environment
\* The deadline timer of timeoutCtx fires.
DeadlineFire ==
  /\ DeadlineDue
  /\ timeoutCtxErr' = "DeadlineExceeded"
  /\ firedInFlight' = (firedInFlight \/ pc = "fetching")
  /\ UNCHANGED <<optVars, pageVars, now, srcVars, ctlVars, ctxErr, retVars, cmdVars,
                 sigVars, baseline, decidedBy, discoveries, anyPollOk,
                 lateFetches, lateReset, keptInFlight,
                 cancelFired>>

\* The interrupt reaches the process while signal.Notify is registered.
Signal ==
  /\ Running
  /\ ~interrupted
  /\ interrupted' = TRUE
  /\ sigCh' = TRUE
  /\ UNCHANGED <<optVars, pageVars, now, srcVars, ctlVars, ctxVars, retVars, cmdVars,
                 listenerPc, cancelCalls, histVars>>

\* Variant: the goroutine goes back to its select after calling cancel().
ListenerCancelStays ==
  /\ listenerPc = "waiting" /\ sigCh
  /\ sigCh' = FALSE
  /\ listenerPc' = "waiting"
  /\ cancelCalls' = cancelCalls + 1
  /\ ctxErr' = CancelCtx(ctxErr)
  /\ timeoutCtxErr' = PropagateCancel(ctxErr, timeoutCtxErr)
  /\ firedInFlight' = (firedInFlight \/ (pc = "fetching" /\ ~DoneReady))
  /\ cancelFired' = IF pc = "initfetch" THEN "init"
                    ELSE IF pc \in {"select", "fetching"} THEN "loop"
                    ELSE cancelFired
  /\ UNCHANGED <<optVars, pageVars, now, srcVars, ctlVars, retVars, cmdVars,
                 interrupted, baseline, decidedBy, discoveries, anyPollOk,
                 lateFetches, lateReset, keptInFlight>>

\* The goroutine: case <-sigCh: cancel()
ListenerCancel ==
  /\ listenerPc = "waiting" /\ sigCh
  /\ sigCh' = FALSE
  /\ listenerPc' = "done"
  /\ cancelCalls' = cancelCalls + 1
  /\ ctxErr' = CancelCtx(ctxErr)
  /\ timeoutCtxErr' = PropagateCancel(ctxErr, timeoutCtxErr)
  /\ firedInFlight' = (firedInFlight \/ (pc = "fetching" /\ ~DoneReady))
  /\ cancelFired' = IF pc = "initfetch" THEN "init"
                    ELSE IF pc \in {"select", "fetching"} THEN "loop"
                    ELSE cancelFired
  /\ UNCHANGED <<optVars, pageVars, now, srcVars, ctlVars, retVars, cmdVars,
                 interrupted, baseline, decidedBy, discoveries, anyPollOk,
                 lateFetches, lateReset, keptInFlight>>

\* The goroutine: case <-ctx.Done()
ListenerRelease ==
  /\ listenerPc = "waiting" /\ ctxErr # "nil"
  /\ listenerPc' = "done"
  /\ UNCHANGED <<optVars, pageVars, now, srcVars, ctlVars, ctxVars, retVars, cmdVars,
                 sigCh, interrupted, cancelCalls, histVars>>

\* One second passes: the ticker delivers a tick into its 1-slot channel.
Tick ==
  /\ now' = now + 1
  /\ IF tickerOn /\ now' >= nextTick
     THEN tickPending' = TRUE /\ nextTick' = nextTick + interval
     ELSE UNCHANGED <<tickPending, nextTick>>
  /\ UNCHANGED <<optVars, pageVars, srcVars, ctxVars, retVars, cmdVars, sigVars,
                 histVars, pc, fetchStart, startTime, deadline, knownIDs,
                 newComments, consecutiveErrors, debounceTimer, debounceAt,
                 tickerOn>>

\* Time passes while the loop is blocked in the select with no case ready.
AdvanceIdle ==
  /\ ~DeadlineDue /\ ~ListenerReady
  /\ pc = "select" /\ ~DoneReady /\ ~TickReady /\ ~DebounceReady
  /\ Tick

\* Time passes while a fetch is in flight.
AdvanceFetch ==
  /\ ~DeadlineDue /\ ~ListenerReady
  /\ pc \in {"initfetch", "fetching"} /\ now - fetchStart < MaxFetchDur
  /\ Tick

Next ==
  \/ RunWatchStart
  \/ InitFetchFail
  \/ InitFetchOk
  \/ DoneCase
  \/ TickerCase
  \/ PollFetchFail
  \/ PollFetchOk
  \/ DebounceCase
  \/ DeadlineFire
  \/ Signal
  \/ ListenerCancel
  \/ ListenerRelease
  \/ AdvanceIdle
  \/ AdvanceFetch

Spec == Init /\ [][Next]_vars


\* ---------------------------------------- the scripted-arrival specification
\* interval=1s, debounce=2s, timeout=60s; the source never fails and answers
\* within the same second, nobody interrupts, and comments are posted during
\* the first PostHorizon seconds only.
InitCoalesce ==
  /\ interval = 1 /\ debounce = 2 /\ timeout = 60
  /\ includeIssue \in BOOLEAN
  /\ InitRemote
  /\ InitRest

PollFetchOkEarly ==
  /\ now >= PostHorizon => (remoteReview' = remoteReview
                            /\ remoteIssue' = remoteIssue)
  /\ PollFetchOk

NextCoalesce ==
  \/ RunWatchStart
  \/ InitFetchOk
  \/ DoneCase
  \/ TickerCase
  \/ PollFetchOkEarly
  \/ DebounceCase
  \/ DeadlineFire
  \/ ListenerRelease
  \/ AdvanceIdle

SpecCoalesce == InitCoalesce /\ [][NextCoalesce]_vars

\* ------------------------------------------- the short-deadline specification
\* interval=1s, debounce=1s, timeout=3s; the source never fails and answers
\* within the same second, nobody interrupts.
InitDeadline ==
  /\ interval = 1 /\ debounce = 1 /\ timeout = 3
  /\ includeIssue \in BOOLEAN
  /\ InitRemote
  /\ InitRest

SpecDeadline == InitDeadline /\ [][NextCoalesce]_vars

\* ----------------------------------------------- the volatile-source specification
\* Every successful fetch may return any listing: comments can be missing
\* from one fetch and back in a later one, and one comment can be listed twice.
\* interval=1s, debounce=1s, timeout=3s, only review comments are watched, the
\* source answers within the same second, nobody interrupts.
\* Listings of at most n ids of S, in the order the ids were handed out.
SeqsUpTo(S, n) ==
  {q \in UNION {[1..k -> S] : k \in 0..n} :
     \A i \in 1..Len(q) - 1 : q[i] <= q[i + 1]}

\* Database ids of the review comments the volatile source lists.
VolatileIds == {1, 2, 3}

ServedVolatile ==
  /\ remoteReview' \in SeqsUpTo(VolatileIds, MaxServedLen)
  /\ remoteIssue' = remoteIssue

InitVolatile ==
  /\ interval = 1 /\ debounce = 1 /\ timeout = 3
  /\ includeIssue = FALSE
  /\ InitRemote
  /\ InitRest

InitFetchOkVolatile == InitFetchOkWith(ServedVolatile)

PollFetchOkVolatile == PollFetchOkWith(ServedVolatile)

NextVolatile ==
  \/ RunWatchStart
  \/ InitFetchOkVolatile
  \/ DoneCase
  \/ TickerCase
  \/ PollFetchFail
  \/ PollFetchOkVolatile
  \/ DebounceCase
  \/ DeadlineFire
  \/ ListenerRelease
  \/ AdvanceIdle

SpecVolatile == InitVolatile /\ [][NextVolatile]_vars

\* ------------------------------------------------ the paged-fetch specification
\* One poll of a running watch, with its fetchAllComments call taken request
\* by request against a pull request that does not change meanwhile.
ThreadsOf(sz) ==
  [t \in 1..Len(sz) |-> [k \in 1..sz[t] |-> (t - 1) * MaxThreadLen + k]]

\* A running watch whose ticker case is about to call fetchAllComments.
InitPollState ==
  /\ interval = 1 /\ debounce = 1 /\ timeout = 3
  /\ includeIssue \in BOOLEAN
  /\ InitRemote
  /\ now = 1
  /\ pc = "fetching"
  /\ fetchStart = 1 /\ startTime = 0 /\ deadline = 3
  /\ ctxErr = "nil" /\ timeoutCtxErr = "nil"
  /\ knownIDs = {} /\ newComments = <<>> /\ consecutiveErrors \in {0, 2}
  /\ debounceTimer = "nil" /\ debounceAt = NoTime
  /\ tickerOn = TRUE /\ tickPending = FALSE /\ nextTick = 2
  /\ retKind = "none" /\ result = NoResult /\ errPhase = ""
  /\ emitted = 0 /\ exitCode = NoTime
  /\ sigCh = FALSE /\ interrupted = FALSE
  /\ listenerPc = "waiting" /\ cancelCalls = 0
  /\ baseline = {} /\ decidedBy = "none" /\ discoveries = <<>>
  /\ anyPollOk = FALSE /\ firedInFlight = FALSE
  /\ lateFetches = 0 /\ lateReset = FALSE /\ keptInFlight = FALSE
  /\ cancelFired = "no"
  /\ fpc = "idle" /\ cursor = 0 /\ pageAcc = <<>> /\ allAcc = <<>>
  /\ fetchRet = NoFetch

\* The pull requests of the paged-fetch specifications.
ThreadShapes == UNION {[1..n -> 1..MaxThreadLen] : n \in 0..MaxThreads}

InitPages ==
  /\ InitPollState
  /\ \E sz \in ThreadShapes : prThreads = ThreadsOf(sz)
  /\ \E n \in 0..MaxIssuePosted : prIssue = [k \in 1..n |-> k]
  /\ prFound = TRUE

PageFrame ==
  UNCHANGED <<optVars, now, srcVars, ctlVars, ctxVars, retVars, cmdVars,
              sigVars, histVars, prThreads, prIssue, prFound>>

\* fetchAllComments is entered: fetchReviewComments starts with a nil cursor.
FetchAllStart ==
  /\ pc = "fetching" /\ fpc = "idle"
  /\ fpc' = "review" /\ cursor' = 0 /\ pageAcc' = <<>> /\ allAcc' = <<>>
  /\ UNCHANGED fetchRet
  /\ PageFrame

\* One fetchReviewCommentsPage request succeeds.
ReviewPageOk ==
  /\ fpc = "review" /\ prFound
  /\ LET page == fetchReviewCommentsPage(prThreads, cursor)
         acc  == pageAcc \o page.comments
     IN IF page.next # 0
        THEN /\ cursor' = page.next /\ pageAcc' = acc
             /\ UNCHANGED <<fpc, allAcc, fetchRet>>
        ELSE /\ allAcc' = allAcc \o acc
             /\ cursor' = 0 /\ pageAcc' = <<>>
             /\ IF includeIssue
                THEN fpc' = "issue" /\ UNCHANGED fetchRet
                ELSE /\ fpc' = "returned"
                     /\ fetchRet' = [comments |-> allAcc', err |-> FALSE]
  /\ PageFrame

\* One fetchReviewCommentsPage request fails.
ReviewPageFail ==
  /\ fpc = "review"
  /\ fpc' = "returned"
  /\ fetchRet' = FailReturn(allAcc \o pageAcc)
  /\ UNCHANGED <<cursor, pageAcc, allAcc>>
  /\ PageFrame

\* One fetchIssueCommentsPage request succeeds.
IssuePageOk ==
  /\ fpc = "issue" /\ prFound
  /\ LET page == fetchIssueCommentsPage(prIssue, cursor)
         acc  == pageAcc \o page.comments
     IN IF page.next # 0
        THEN /\ cursor' = page.next /\ pageAcc' = acc
             /\ UNCHANGED <<fpc, allAcc, fetchRet>>
        ELSE /\ allAcc' = allAcc \o acc
             /\ cursor' = 0 /\ pageAcc' = <<>>
             /\ fpc' = "returned"
             /\ fetchRet' = [comments |-> allAcc', err |-> FALSE]
  /\ PageFrame

\* One fetchIssueCommentsPage request fails.
IssuePageFail ==
  /\ fpc = "issue"
  /\ fpc' = "returned"
  /\ fetchRet' = FailReturn(allAcc \o pageAcc)
  /\ UNCHANGED <<cursor, pageAcc, allAcc>>
  /\ PageFrame

\* The database ids of the comments of one namespace in a fetch result.
IdsOfType(cs, kind) ==
  LET sel == SelectSeq(cs, LAMBDA c : c.Type = kind)
  IN [k \in 1..Len(sel) |-> DatabaseIDOf(sel[k].ID)]

\* The listing the call handed to the ticker case.
ServedPaged ==
  /\ remoteReview' = IdsOfType(fetchRet.comments, "review")
  /\ remoteIssue' = IdsOfType(fetchRet.comments, "issue")

\* The ticker case goes on with the comments fetchAllComments returned.
PagedPollOk ==
  /\ fpc = "returned" /\ ~fetchRet.err
  /\ PollFetchOkWith(ServedPaged)

\* The ticker case goes on with the error fetchAllComments returned.
PagedPollFail ==
  /\ fpc = "returned" /\ fetchRet.err
  /\ PollFetchFail

NextPages ==
  \/ FetchAllStart
  \/ ReviewPageOk
  \/ ReviewPageFail
  \/ IssuePageOk
  \/ IssuePageFail
  \/ PagedPollOk
  \/ PagedPollFail

SpecPages == InitPages /\ [][NextPages]_vars

\* ------------------------------------------- the malformed-source specification
\* The paged fetch against a source that may lose the pull request and may
\* send a comment node without its databaseId.
AbsentLast(ids) ==
  IF ids = <<>> THEN ids ELSE [ids EXCEPT ![Len(ids)] = Absent]

InitMalformed ==
  /\ InitPollState
  /\ \E sz \in ThreadShapes, bad \in BOOLEAN :
        prThreads = IF bad /\ sz # <<>>
                    THEN [ThreadsOf(sz) EXCEPT ![1] = AbsentLast(@)]
                    ELSE ThreadsOf(sz)
  /\ \E n \in 0..MaxIssuePosted, bad \in BOOLEAN :
        prIssue = IF bad THEN AbsentLast([k \in 1..n |-> k])
                  ELSE [k \in 1..n |-> k]
  /\ prFound \in BOOLEAN

\* The pull request stops being visible to the API during the call.
PullRequestGone ==
  /\ fpc \in {"review", "issue"} /\ prFound
  /\ prFound' = FALSE
  /\ UNCHANGED <<optVars, now, srcVars, ctlVars, ctxVars, retVars, cmdVars,
                 sigVars, histVars, prThreads, prIssue, fpc, cursor, pageAcc,
                 allAcc, fetchRet>>

\* A page request is answered without repository or pullRequest:
\* "pull request %d not found".
PageNotFound ==
  /\ fpc \in {"review", "issue"} /\ ~prFound
  /\ fpc' = "returned"
  /\ fetchRet' = FailReturn(allAcc \o pageAcc)
  /\ UNCHANGED <<cursor, pageAcc, allAcc>>
  /\ PageFrame

NextMalformed ==
  \/ FetchAllStart
  \/ ReviewPageOk
  \/ ReviewPageFail
  \/ IssuePageOk
  \/ IssuePageFail
  \/ PullRequestGone
  \/ PageNotFound
  \/ PagedPollOk
  \/ PagedPollFail

SpecMalformed == InitMalformed /\ [][NextMalformed]_vars

\* --------------------------------------------------- the listener specification
\* interval=1s, debounce=1s, timeout=3s, review comments only; interrupts may
\* keep arriving, and the signal goroutine is scheduled once it can run.
InitListener ==
  /\ interval = 1 /\ debounce = 1 /\ timeout = 3
  /\ includeIssue = FALSE
  /\ InitRemote
  /\ InitRest

\* A further interrupt: signal.Notify puts it into sigCh if the slot is free.
SignalAgain ==
  /\ Running
  /\ interrupted /\ ~sigCh
  /\ sigCh' = TRUE
  /\ UNCHANGED <<optVars, pageVars, now, srcVars, ctlVars, ctxVars, retVars,
                 cmdVars, interrupted, listenerPc, cancelCalls, histVars>>

NextListener ==
  \/ RunWatchStart
  \/ InitFetchFail
  \/ InitFetchOk
  \/ DoneCase
  \/ TickerCase
  \/ PollFetchFail
  \/ PollFetchOk
  \/ DebounceCase
  \/ DeadlineFire
  \/ Signal
  \/ SignalAgain
  \/ ListenerCancel
  \/ ListenerRelease
  \/ AdvanceIdle
  \/ AdvanceFetch

SpecListener ==
  InitListener /\ [][NextListener]_vars /\ WF_vars(ListenerRelease)

\* ---------------------------------------------------- the ceiling specification
\* interval=1s, debounce=4s, timeout=6s: a debounce window long enough to hold
\* three failed polls.  The source answers within the same second and may
\* fail any poll; nobody interrupts.
InitCeiling ==
  /\ interval = 1 /\ debounce = 4 /\ timeout = 6
  /\ includeIssue \in BOOLEAN
  /\ InitRemote
  /\ InitRest

NextCeiling ==
  \/ RunWatchStart
  \/ InitFetchOk
  \/ DoneCase
  \/ TickerCase
  \/ PollFetchFail
  \/ PollFetchOk
  \/ DebounceCase
  \/ DeadlineFire
  \/ ListenerRelease
  \/ AdvanceIdle

SpecCeiling == InitCeiling /\ [][NextCeiling]_vars

\* ------------------------------------------------------------------ claims
Exited == pc = "exited"
\* The initial snapshot succeeded and the select loop was entered.
LoopEntered == pc \in {"select", "fetching"}
               \/ decidedBy \in {"done", "debounce", "ceiling"}

\* C1. Baseline exclusion: no comment whose identity the initial fetch returned
\* is ever accumulated, and none appears in the comments of the WatchResult,
\* whichever trigger ends the run.
C1_BaselineExclusion ==
  /\ IDsOf(newComments) \cap baseline = {}
  /\ retKind = "result" => IDsOf(result.comments) \cap baseline = {}

C1_Witness ==
  /\ retKind = "result" /\ baseline # {} /\ result.comments # <<>>
  /\ anyPollOk

\* C2 as stated: a source failing every poll always ends the run with the
\* fatal error at the third failed poll, never with a WatchResult (checked on
\* the runs without interrupt).
C2_Original ==
  (Exited /\ LoopEntered /\ ~anyPollOk /\ consecutiveErrors >= 1
     /\ ~interrupted)
    => (retKind = "error" /\ errPhase = "polling"
        /\ consecutiveErrors = maxConsecutiveErrs)

\* C2 amended. After a successful initial snapshot a source that fails every
\* poll ends the run with a fatal error exactly at the third consecutive failed
\* poll (never after one or two, and no fourth poll is started), unless the
\* deadline or the interrupt ends the run before the third failure: then Watch
\* returns a WatchResult without comments that is timedOut or cancelled.
C2_ErrorCeiling ==
  /\ consecutiveErrors <= maxConsecutiveErrs
  /\ pc = "fetching" => consecutiveErrors < maxConsecutiveErrs
  /\ errPhase = "polling"
       <=> (LoopEntered /\ consecutiveErrors = maxConsecutiveErrs)
  /\ errPhase = "polling" => (Exited /\ retKind = "error" /\ emitted = 0)
  /\ (Exited /\ LoopEntered /\ ~anyPollOk /\ errPhase # "polling")
       => /\ consecutiveErrors < maxConsecutiveErrs
          /\ retKind = "result" /\ decidedBy = "done"
          /\ result.comments = <<>>
          /\ result.timedOut \/ result.cancelled

C2_Witness ==
  /\ Exited /\ ~anyPollOk /\ errPhase = "polling"
  /\ consecutiveErrors = maxConsecutiveErrs

C4_NoFetchNoResetAfterFire ==
  lateFetches = 0 /\ ~lateReset

\* C5. A fetch that is in flight when the cancellation trigger or the deadline
\* fires has its result discarded: the comments it saw first are not appended
\* to the accumulator, not added to knownIDs and not returned.
C5_InFlightDiscarded ==
  ~keptInFlight

\* C6 as stated: in every WatchResult at most one of timedOut and cancelled
\* is true.
C6_Original ==
  retKind = "result" => ~(result.timedOut /\ result.cancelled)

\* C6 amended. Every WatchResult is built by exactly one select case.  A
\* debounce-decided result has both flags false.  A Done-decided result has
\* timedOut = true exactly when the deadline fired before any cancellation,
\* and cancelled = true exactly when the interrupt's cancel() had fired before
\* the result was built; at least one of the two is true, and both are true
\* when the deadline fired first and the interrupt followed before the loop
\* built the result.  An interrupt that fires first gives cancelled = true and
\* timedOut = false.
C6_ResultFlags ==
  retKind = "result" =>
    /\ decidedBy \in {"debounce", "done"}
    /\ decidedBy = "debounce" => (~result.timedOut /\ ~result.cancelled)
    /\ decidedBy = "done" =>
         /\ result.timedOut \/ result.cancelled
         /\ result.timedOut <=> (timeoutCtxErr = "DeadlineExceeded")
         /\ result.cancelled <=> (cancelFired # "no")
         /\ timeoutCtxErr = "Canceled" =>
              (result.cancelled /\ ~result.timedOut)

C6_Witness ==
  /\ retKind = "result" /\ decidedBy = "done"
  /\ result.timedOut /\ result.cancelled

\* C7. Debounce coalescing: with interval=1s, debounce=2s, timeout=60s, no
\* failure and no interrupt, if the polls at t=1s, 2s and 3s each discover one
\* new comment and no later poll discovers any, the watch ends at t=5s by the
\* debounce expiry with exactly those three comments, timedOut = false and
\* cancelled = false.
C7_DebounceCoalescing ==
  LET arrivals == <<[at |-> 1, n |-> 1], [at |-> 2, n |-> 1],
                    [at |-> 3, n |-> 1]>>
  IN /\ (discoveries = arrivals /\ Running) => now <= 5
     /\ (discoveries = arrivals /\ Exited) =>
          /\ now = 5
          /\ retKind = "result" /\ decidedBy = "debounce"
          /\ Len(result.comments) = 3
          /\ result.comments = newComments
          /\ Cardinality(IDsOf(result.comments)) = 3
          /\ IDsOf(result.comments) \cap baseline = {}
          /\ ~result.timedOut /\ ~result.cancelled
          /\ result.watchedMs = 5
          /\ emitted = 1 /\ exitCode = 0

C7_Witness ==
  /\ Exited /\ now = 5 /\ Len(discoveries) = 3
  /\ discoveries[1].at = 1 /\ discoveries[2].at = 2 /\ discoveries[3].at = 3
  /\ interval = 1 /\ debounce = 2 /\ timeout = 60
  /\ decidedBy = "debounce" /\ Len(result.comments) = 3

\* C8. Debounce expiry is the success path: when the loop reacts to the
\* debounce expiry, Watch returns a WatchResult, not an error, whose comments
\* are exactly the accumulator, with timedOut = false and cancelled = false.
C8_DebounceSuccess ==
  decidedBy = "debounce" =>
    /\ retKind = "result" /\ errPhase = ""
    /\ result.comments = newComments
    /\ ~result.timedOut /\ ~result.cancelled
    /\ emitted = 1 /\ exitCode = 0

C8_Witness ==
  /\ decidedBy = "debounce" /\ Len(result.comments) >= 2
  /\ timeoutCtxErr = "DeadlineExceeded"

\* C9. Timeout keeps what was collected: when the loop reacts to the deadline,
\* Watch returns a WatchResult, not an error, with timedOut = true whose
\* comments are exactly the accumulator (possibly empty), whether or not a
\* debounce timer is pending.
C9_TimeoutKeepsComments ==
  (decidedBy = "done" /\ timeoutCtxErr = "DeadlineExceeded") =>
    /\ retKind = "result" /\ errPhase = "" /\ emitted = 1
    /\ result.timedOut
    /\ result.comments = newComments
    /\ debounceTimer \in {"nil", "stopped"}
    /\ debounceTimer = "stopped" => result.comments # <<>>

C9_Witness ==
  /\ decidedBy = "done" /\ timeoutCtxErr = "DeadlineExceeded"
  /\ debounceTimer = "stopped" /\ result.comments # <<>>
  /\ ~result.cancelled

\* C10. Cancellation is a clean stop: when the loop reacts to the cancellation
\* trigger, Watch returns a WatchResult, not an error, with cancelled = true
\* and timedOut = false whose comments are the accumulator (possibly empty);
\* a run that ends by the deadline with no interrupt has cancelled = false, so
\* the two results differ.
C10_CancellationCleanStop ==
  /\ (decidedBy = "done" /\ timeoutCtxErr = "Canceled") =>
       /\ retKind = "result" /\ errPhase = "" /\ emitted = 1
       /\ result.cancelled /\ ~result.timedOut
       /\ result.comments = newComments
       /\ exitCode = 0
  /\ (decidedBy = "done" /\ ~interrupted) =>
       (result.timedOut /\ ~result.cancelled)

C10_Witness ==
  /\ decidedBy = "done" /\ timeoutCtxErr = "Canceled"
  /\ result.cancelled /\ result.comments # <<>>

\* C11. Timeout with no activity (interval=1s, debounce=1s, timeout=3s, every
\* fetch succeeds and returns exactly the baseline, no interrupt): the run ends
\* at t=3s, not earlier, through the Done case with an empty comments sequence,
\* timedOut=true and cancelled=false.
C11_QuietTimeout ==
  (Exited /\ discoveries = <<>>)
    => /\ retKind = "result" /\ decidedBy = "done"
       /\ now = startTime + timeout /\ now = 3
       /\ result.watchedMs = 3
       /\ result.comments = <<>>
       /\ result.timedOut /\ ~result.cancelled

C11_Witness ==
  /\ Exited /\ discoveries = <<>> /\ baseline # {} /\ anyPollOk
  /\ now = 3 /\ result.timedOut /\ result.comments = <<>>

\* C12. Timeout with partial activity (same options): when the poll at t=1s
\* discovers exactly one new comment and no later poll discovers any, the
\* debounce expiry at t=2s ends the run before the deadline: the result holds
\* exactly that one comment, with timedOut=false.
C12_PartialActivity ==
  (Exited /\ discoveries = <<[at |-> 1, n |-> 1]>>)
    => /\ retKind = "result" /\ decidedBy = "debounce"
       /\ now = 2 /\ now < deadline
       /\ Len(result.comments) = 1
       /\ result.comments = newComments
       /\ result.comments[1].ID \notin baseline
       /\ ~result.timedOut /\ ~result.cancelled

C12_Witness ==
  /\ Exited /\ discoveries = <<[at |-> 1, n |-> 1]>>
  /\ decidedBy = "debounce" /\ Len(result.comments) = 1 /\ baseline # {}

\* C13. A fatal error never comes with output and a normal stop always comes
\* with exactly one: when Watch fails (initial fetch failure or error ceiling)
\* the command has emitted no WatchResult, also when comments had been
\* accumulated; when Watch ends by debounce, timeout or cancellation the
\* command has emitted exactly one WatchResult, also when comments is empty.
C13_OutputOnlyOnNormalStop ==
  /\ ~Exited => emitted = 0
  /\ (Exited /\ retKind = "error")
       => (emitted = 0 /\ decidedBy \in {"initial", "ceiling"})
  /\ (Exited /\ retKind = "result")
       => (emitted = 1 /\ decidedBy \in {"debounce", "done"})
  /\ (Exited /\ retKind = "none") => emitted = 0

C13_Witness ==
  /\ Exited /\ retKind = "error" /\ decidedBy = "ceiling"
  /\ newComments # <<>> /\ emitted = 0

\* C14 as stated: exit 1 exactly when an error occurred, exit 2 exactly when
\* the deadline was reached with zero comments accumulated, exit 0 otherwise.
C14_Original ==
  Exited =>
    /\ exitCode = 1 <=> retKind \in {"error", "none"}
    /\ exitCode = 2 <=> (retKind = "result" /\ result.timedOut
                          /\ result.comments = <<>>)
    /\ exitCode = 0 <=> (retKind = "result"
                          /\ ~(result.timedOut /\ result.comments = <<>>))

\* C14. Exit-code mapping of the watch command, for every outcome: exit 1
\* exactly when an error occurred (rejected options, initial fetch failure,
\* error ceiling); exit 2 exactly when the result is timedOut, not cancelled
\* and has zero comments; exit 0 in every other case: comments were found, or
\* the run was cancelled, also when the deadline had fired before the interrupt
\* and no comment was accumulated.
C14_ExitCodes ==
  Exited =>
    /\ exitCode \in {0, 1, 2}
    /\ exitCode = 1 <=> retKind \in {"error", "none"}
    /\ exitCode = 2 <=> (retKind = "result" /\ result.timedOut
                          /\ ~result.cancelled /\ result.comments = <<>>)
    /\ exitCode = 0 <=> (retKind = "result"
                          /\ (result.comments # <<>> \/ result.cancelled
                              \/ ~result.timedOut))
    /\ (retKind = "result" /\ result.cancelled) => exitCode = 0

C14_Witness ==
  /\ Exited /\ retKind = "result" /\ exitCode = 0
  /\ result.timedOut /\ result.cancelled /\ result.comments = <<>>

\* C15. A failure of the initial fetchAll is fatal at once: Watch returns an
\* error without retrying the fetch, never enters the polling loop (no ticker,
\* no poll, no timer decides anything) and produces no WatchResult; a failed
\* poll ends the watch only as the third consecutive one.
C15_InitialFailureFatal ==
  /\ errPhase = "initial"
       => /\ Exited /\ retKind = "error" /\ decidedBy = "initial"
          /\ ~LoopEntered
          /\ result = NoResult /\ emitted = 0 /\ exitCode = 1
          /\ knownIDs = {} /\ newComments = <<>>
          /\ ~anyPollOk /\ consecutiveErrors = 0 /\ lateFetches = 0
          /\ debounceTimer = "nil" /\ ~tickerOn /\ ~tickPending
  /\ (retKind = "error" /\ errPhase = "polling")
       => consecutiveErrors = maxConsecutiveErrs
  /\ (retKind = "error") => errPhase \in {"initial", "polling"}
  /\ (pc = "initfetch") => (errPhase = "" /\ retKind = "none")

C15_Witness ==
  /\ Exited /\ errPhase = "initial" /\ retKind = "error" /\ exitCode = 1
  /\ now = startTime + MaxFetchDur

\* C16. A transient poll failure changes nothing but the counter: when a poll's
\* fetch fails and the consecutive-error counter stays below 3, the watch goes
\* back to the select and knownIDs, the accumulator and the debounce timer
\* (armed or not, and its expiry) are unchanged; a later successful poll
\* reports every fetched comment that is not in knownIDs.
C16_TransientFailureFrame ==
  /\ [][(pc = "fetching" /\ consecutiveErrors' = consecutiveErrors + 1
          /\ consecutiveErrors' < maxConsecutiveErrs)
        => /\ pc' = "select" /\ retKind' = "none"
           /\ UNCHANGED <<knownIDs, newComments, debounceTimer, debounceAt>>
       ]_vars
  /\ [][(pc = "fetching" /\ pc' = "select" /\ consecutiveErrors' = 0)
        => LET cur == fetchAllComments(remoteReview', remoteIssue',
                                       includeIssue)
           IN /\ IDsOf(cur) \subseteq knownIDs'
              /\ IDsOf(newComments')
                   = IDsOf(newComments) \cup (IDsOf(cur) \ knownIDs)
       ]_vars

C16_Witness ==
  /\ pc = "select" /\ consecutiveErrors = 2
  /\ debounceTimer = "running" /\ newComments # <<>>

NoDuplicateIDs(cs) ==
  \A i, j \in 1..Len(cs) : i # j => cs[i].ID # cs[j].ID

\* C17. Each comment is reported at most once: diffing a fetch against a
\* knownIDs that already holds its identities yields nothing new, so whatever
\* the polls return (a comment missing from one fetch and back in a later one,
\* a comment listed twice in one fetch) an identity is appended to the
\* accumulator at most once and the returned comments hold no identity twice.
C17_ReportedAtMostOnce ==
  /\ [](/\ NoDuplicateIDs(newComments)
        /\ NoDuplicateIDs(result.comments)
        /\ IDsOf(newComments) \cap baseline = {}
        /\ IDsOf(newComments) \subseteq knownIDs)
  /\ [][(pc = "fetching" /\ pc' = "select" /\ consecutiveErrors' = 0)
        => LET cur == fetchAllComments(remoteReview', remoteIssue',
                                       includeIssue)
           IN /\ DiffNew(cur, knownIDs') = <<>>
              /\ \A k \in Len(newComments) + 1 .. Len(newComments') :
                    newComments'[k].ID \notin knownIDs
       ]_vars

C17_Witness ==
  /\ Exited /\ retKind = "result" /\ Len(result.comments) >= 2
  /\ Len(remoteReview) > Cardinality(Range(remoteReview))
  /\ \E c \in Range(result.comments) :
        /\ c.ID \notin fetchAllCommentIDs(remoteReview, remoteIssue,
                                           includeIssue)
        /\ discoveries[Len(discoveries)].at > discoveries[1].at

\* C18. knownIDs grows monotonically: across every transition of a run
\* (successful poll, failed poll, timer event, return) the set of known
\* identities after the step contains the set before it, also when a later
\* fetch no longer returns a known comment.
C18_ObservedSetMonotone ==
  [][knownIDs \subseteq knownIDs']_vars

C18_Witness ==
  /\ anyPollOk /\ pc = "select"
  /\ \E id \in knownIDs :
        id \notin fetchAllCommentIDs(remoteReview, remoteIssue, includeIssue)
  /\ \E id \in baseline :
        id \notin fetchAllCommentIDs(remoteReview, remoteIssue, includeIssue)

\* Every comment of every review thread the API holds, in listing order.
AllThreadComments ==
  Flatten([t \in 1..Len(prThreads) |->
             [k \in 1..Len(prThreads[t]) |->
                MkComment("review", prThreads[t][k])]])

\* C19. fetchAllComments returns the complete current history of review
\* comments: for a pull request whose threads span several pages and whose
\* threads hold more comments than one page, a successful call returns every
\* comment of every thread, each exactly once.
C19_CompleteReviewHistory ==
  (fpc = "returned" /\ ~fetchRet.err)
    => SelectSeq(fetchRet.comments, LAMBDA c : c.Type = "review")
         = AllThreadComments

\* C20. fetchAllComments is all-or-nothing: when any page request of either
\* namespace fails (a later page of the thread listing, or a page of the issue
\* comments after the review comments were fetched), the call returns the
\* error and no comments, and the loop neither marks an ID as known nor
\* appends a comment; knownIDs and the accumulator change only after a call
\* in which every page request succeeded.
C20_AllOrNothing ==
  /\ [](fetchRet.err => (fpc = "returned" /\ fetchRet.comments = <<>>))
  /\ []((fpc = "returned" /\ ~fetchRet.err)
          => (fetchRet.comments = allAcc /\ pageAcc = <<>>))
  /\ [][(knownIDs' # knownIDs \/ newComments' # newComments)
         => (fpc = "returned" /\ ~fetchRet.err
             /\ IDsOf(newComments') \subseteq IDsOf(allAcc))
       ]_vars
  /\ [](fetchRet.err => (knownIDs = {} /\ newComments = <<>>))

C20_Witness ==
  /\ fpc = "returned" /\ fetchRet.err /\ includeIssue
  /\ allAcc # <<>> /\ pageAcc # <<>>
  /\ pc = "select" /\ consecutiveErrors = 1
  /\ knownIDs = {} /\ newComments = <<>>

\* C21. fetchAllComments fails, and returns no comments, whenever the pull
\* request cannot be located or a page holds an entry without its numeric
\* database id; such an entry is never normalized into a Comment.
C21_MalformedFails ==
  /\ (fpc = "returned" /\ ~prFound)
       => (fetchRet.err /\ fetchRet.comments = <<>>)
  /\ \A k \in 1..Len(fetchRet.comments) :
        DatabaseIDOf(fetchRet.comments[k].ID) # DecodeID(Absent)
  /\ \A k \in 1..Len(newComments) :
        DatabaseIDOf(newComments[k].ID) # DecodeID(Absent)

IsPrefix(p, q) == Len(p) <= Len(q) /\ SubSeq(q, 1, Len(p)) = p

\* C23. includeIssue selects the namespaces: with it set, the comments a poll
\* appends are its new review comments followed by its new issue comments;
\* with it unset, the issue stream is never queried and no comment of kind
\* issue ever enters knownIDs, the accumulator or the WatchResult.
C23_NamespaceSelection ==
  /\ [](~includeIssue
          => /\ remoteIssue = <<>>
             /\ \A id \in knownIDs : id[1] = "review"
             /\ \A k \in 1..Len(newComments) :
                   newComments[k].Type = "review"
             /\ \A k \in 1..Len(result.comments) :
                   result.comments[k].Type = "review")
  /\ [][(pc = "fetching" /\ pc' = "select" /\ consecutiveErrors' = 0)
        => /\ \A i, j \in Len(newComments) + 1 .. Len(newComments') :
                (newComments'[i].Type = "issue"
                 /\ newComments'[j].Type = "review") => j < i
           /\ includeIssue
                => \A k \in 1..Len(remoteIssue') :
                     Sprintf("issue", remoteIssue'[k]) \in knownIDs'
       ]_vars

C23_Witness ==
  /\ includeIssue /\ Len(discoveries) = 1 /\ discoveries[1].n = 2
  /\ newComments[1].Type = "review" /\ newComments[2].Type = "issue"

\* C25. Options must be positive: a run whose interval, debounce or timeout is
\* not greater than 0 is rejected with an error before any fetch is made and
\* before the listener is started; it produces no WatchResult and no option is
\* replaced by a default.
C25_OptionsMustBePositive ==
  /\ []((interval <= 0 \/ debounce <= 0 \/ timeout <= 0)
          => /\ pc \in {"validate", "exited"}
             /\ listenerPc = "idle" /\ cancelCalls = 0
             /\ startTime = NoTime /\ fetchStart = NoTime
             /\ remoteReview = <<>> /\ remoteIssue = <<>> /\ knownIDs = {}
             /\ ~tickerOn /\ debounceTimer = "nil"
             /\ retKind = "none" /\ emitted = 0
             /\ (pc = "exited" => exitCode = 1))
  /\ [][UNCHANGED optVars]_vars

C25_Witness ==
  /\ Exited /\ exitCode = 1 /\ retKind = "none"
  /\ interval > 0 /\ debounce > 0 /\ timeout = 0

\* C26. Discovery order: the accumulator is append-only (what it held at any
\* earlier moment is a prefix of what it holds later and of the final
\* comments), and the new comments of one poll are appended in the order in
\* which that poll's fetch returned them.
C26_DiscoveryOrder ==
  /\ [][IsPrefix(newComments, newComments')]_vars
  /\ []((Exited /\ retKind = "result") => result.comments = newComments)
  /\ [][(pc = "fetching" /\ pc' = "select" /\ consecutiveErrors' = 0)
        => LET cur == fetchAllComments(remoteReview', remoteIssue',
                                       includeIssue)
           IN SubSeq(newComments', Len(newComments) + 1, Len(newComments'))
                = SelectSeq(cur, LAMBDA c : c.ID \notin knownIDs)
       ]_vars

C26_Witness ==
  /\ Exited /\ retKind = "result" /\ Len(discoveries) >= 2
  /\ Len(result.comments) >= 3
  /\ result.comments[1].Type = "issue"
  /\ result.comments[2].Type = "review"

\* C28. The debounce timer is armed only if the accumulator is non-empty;
\* hence every WatchResult with timedOut=false and cancelled=false holds at
\* least one comment, and a run in which no new comment is ever discovered
\* ends only by timeout, cancellation or fatal error.
C28_DebounceNeedsComments ==
  /\ debounceTimer # "nil" => newComments # <<>>
  /\ (retKind = "result" /\ ~result.timedOut /\ ~result.cancelled)
       => (result.comments # <<>> /\ decidedBy = "debounce")
  /\ (Exited /\ retKind # "none" /\ discoveries = <<>>)
       => /\ decidedBy \in {"done", "ceiling", "initial"}
          /\ retKind = "result" => (result.timedOut \/ result.cancelled)

C28_Witness ==
  /\ Exited /\ LoopEntered /\ anyPollOk /\ discoveries = <<>>
  /\ retKind = "result" /\ result.cancelled /\ ~result.timedOut

C27_DebounceRestart ==
  /\ [](decidedBy = "debounce"
          => /\ discoveries # <<>>
             /\ now - discoveries[Len(discoveries)].at >= debounce)
  /\ [](debounceTimer = "running"
          => /\ discoveries # <<>>
             /\ debounceAt = discoveries[Len(discoveries)].at + debounce)
  /\ [][(pc = "fetching" /\ pc' = "select"
          /\ Len(newComments') > Len(newComments))
        => (debounceTimer' = "running" /\ debounceAt' = now + debounce)
       ]_vars

C27_Witness ==
  /\ Exited /\ decidedBy = "debounce" /\ Len(discoveries) >= 2
  /\ discoveries[2].at > discoveries[1].at + debounce

\* C29. Termination is final and leaves no timer behind: on every way out of
\* the loop (debounce expiry, timeout, cancellation, error ceiling) the poll
\* ticker and the deadline timer are released and no debounce timer stays
\* armed to fire later; after the return no event is processed and no fetch
\* is made.
C29_NoTimerLeftBehind ==
  (Exited /\ retKind # "none")
    => /\ ~tickerOn /\ ~tickPending /\ nextTick = NoTime
       /\ timeoutCtxErr # "nil"
       /\ fetchStart = NoTime
       /\ ~(debounceTimer = "running" /\ debounceAt > now)

\* C30. Every run terminates, and the deadline is absolute: it is counted from
\* the start of Watch, the initial fetch included, and the first time the loop
\* evaluates its events with the deadline passed, the run ends; new arrivals
\* that restart the debounce window and transient failures never postpone it.
C30_DeadlineAbsolute ==
  /\ [](startTime # NoTime => deadline = startTime + timeout)
  /\ [][(pc = "select" /\ timeoutCtxErr = "DeadlineExceeded"
          /\ pc' # "select")
        => pc' = "exited"
       ]_vars

=============================================================================
